---------------------------- MODULE Spec2Model ----------------------------
(***************************************************************************)
(* Model of the statement parser of kbank_extract (src/src/parser.py).     *)
(*                                                                         *)
(* A Python str is a sequence of characters.  An ASCII character is the    *)
(* one-character string of itself.  Thai text is written with one          *)
(* character per Thai morpheme, named by its transliteration, which keeps  *)
(* every substring relation between the keywords of the program:           *)
(*    "rab" "on" "ngoen" "phan" "pai" "chak" "rahat" (rahat-ang-ing)       *)
(*    "phuea" "chamra" "kha" (kha-thamniam) "hak" (hak-banchi)             *)
(*    "yot" (yot-yok-ma) "ran" (ran-kha)                                   *)
(* Amounts are kept in hundredths (the pattern admits no other fraction).  *)
(***************************************************************************)
EXTENDS Integers, Sequences, FiniteSets

\* ------------------------------------------------------------------------
\* Python str primitives
\* ------------------------------------------------------------------------

\* str.isspace for the characters of the model
IsSpace(c) == c \in {" ", "\n", "\t"}

\* \d of the re module
IsDigit(c) == c \in {"0", "1", "2", "3", "4", "5", "6", "7", "8", "9"}

DigitVal(c) ==
    CASE c = "0" -> 0 [] c = "1" -> 1 [] c = "2" -> 2 [] c = "3" -> 3
      [] c = "4" -> 4 [] c = "5" -> 5 [] c = "6" -> 6 [] c = "7" -> 7
      [] c = "8" -> 8 [] c = "9" -> 9

\* s[n:]
Drop(s, n) == SubSeq(s, n + 1, Len(s))

\* p occurs in s at index i (1-based)
StartsWithAt(s, i, p) ==
    /\ i >= 1
    /\ i + Len(p) - 1 <= Len(s)
    /\ \A k \in 1..Len(p) : s[i + k - 1] = p[k]

\* s.startswith(p)
StartsWith(s, p) == StartsWithAt(s, 1, p)

\* p in s
Contains(s, p) == \E i \in 1..(Len(s) - Len(p) + 1) : StartsWithAt(s, i, p)

\* the first index >= i of s that holds no whitespace (Len(s)+1 if none)
RECURSIVE WsEnd(_, _)
WsEnd(s, i) == IF i <= Len(s) /\ IsSpace(s[i]) THEN WsEnd(s, i + 1) ELSE i

\* the first index >= i of s that holds whitespace (Len(s)+1 if none)
RECURSIVE WordEnd(_, _)
WordEnd(s, i) == IF i <= Len(s) /\ ~IsSpace(s[i]) THEN WordEnd(s, i + 1) ELSE i

\* the last index <= i of s that holds no whitespace (0 if none)
RECURSIVE WsStart(_, _)
WsStart(s, i) == IF i >= 1 /\ IsSpace(s[i]) THEN WsStart(s, i - 1) ELSE i

\* s.strip()
Strip(s) == SubSeq(s, WsEnd(s, 1), WsStart(s, Len(s)))

\* the least element of a set of integers
SetMin(S) == CHOOSE x \in S : \A y \in S : x <= y

\* s.split(sep): every piece between occurrences of sep, empty pieces kept
RECURSIVE SplitFrom(_, _, _)
SplitFrom(s, sep, start) ==
    LET occ == { k \in start..(Len(s) - Len(sep) + 1) : StartsWithAt(s, k, sep) }
    IN IF occ = {} THEN << SubSeq(s, start, Len(s)) >>
       ELSE << SubSeq(s, start, SetMin(occ) - 1) >>
               \o SplitFrom(s, sep, SetMin(occ) + Len(sep))

Split(s, sep) == SplitFrom(s, sep, 1)

\* s.split(): the whitespace-delimited words of s
RECURSIVE WordsFrom(_, _)
WordsFrom(s, i) ==
    LET b == WsEnd(s, i)
    IN IF b > Len(s) THEN << >>
       ELSE << SubSeq(s, b, WordEnd(s, b) - 1) >> \o WordsFrom(s, WordEnd(s, b))

Words(s) == WordsFrom(s, 1)

\* s.split(maxsplit=1): the first word, and the rest when there is one
SplitMax1(s) ==
    LET b == WsEnd(s, 1)
        e == WordEnd(s, b)
        r == WsEnd(s, e)
    IN IF b > Len(s) THEN << >>
       ELSE IF r > Len(s) THEN << SubSeq(s, b, e - 1) >>
       ELSE << SubSeq(s, b, e - 1), SubSeq(s, r, Len(s)) >>

\* sep.join(parts)
RECURSIVE Join(_, _)
Join(parts, sep) ==
    IF Len(parts) = 0 THEN << >>
    ELSE IF Len(parts) = 1 THEN parts[1]
    ELSE parts[1] \o sep \o Join(Tail(parts), sep)

\* ------------------------------------------------------------------------
\* Literals of the program
\* ------------------------------------------------------------------------

SP == << " " >>
NL == << "\n" >>

\* 'KBPDF (FM001-V.6) 01/1A2-0 (05-19)'
FooterMarker ==
    << "K", "B", "P", "D", "F", " ", "(", "F", "M", "0", "0", "1", "-", "V",
       ".", "6", ")", " ", "0", "1", "/", "1", "A", "2", "-", "0", " ", "(",
       "0", "5", "-", "1", "9", ")" >>

\* the opening-balance marker
OpeningMarker == << "yot" >>

KwTransferIn == << "rab", "on", "ngoen" >>
KwTransferInQR == << "rab", "on", "ngoen", "phan", " ", "Q", "R" >>
KwTransfer == << "on", "ngoen" >>
KwPayment == << "chamra", "ngoen" >>
KwFee == << "kha" >>
KwDebit == << "hak" >>

inbound_keywords == << KwTransferIn, KwTransferInQR >>
outbound_keywords == << KwTransfer, KwPayment, KwFee, KwDebit >>

KwFrom == << "chak" >>
KwTransferTo == << "on", "pai" >>
KwReference == << "rahat" >>
KwForPayment == << "phuea", "chamra" >>

\* the (pattern, keyword) pairs: "lazy" is  kw\s+([^\s].*?)(?:\+\+|$)
\* and "word" is  kw\s+([^\s]+)
patterns ==
    << [kind |-> "lazy", keyword |-> KwFrom],
       [kind |-> "lazy", keyword |-> KwTransferTo],
       [kind |-> "word", keyword |-> KwReference],
       [kind |-> "lazy", keyword |-> KwForPayment] >>

\* ------------------------------------------------------------------------
\* extract_recipient
\* ------------------------------------------------------------------------

\* the ends q of a lazy capture that starts at p:  .*?  runs over p+1..q-1
\* (no newline), and at q stands '++' or the end of the string ($ also
\* matches before a final newline)
LazyEnds(text, p) ==
    { q \in (p + 1)..(Len(text) + 1) :
        /\ \/ StartsWithAt(text, q, << "+", "+" >>)
           \/ q = Len(text) + 1
           \/ (q = Len(text) /\ text[q] = "\n")
        /\ \A k \in (p + 1)..(q - 1) : text[k] # "\n" }

\* the match of a pair's pattern with the keyword at index i: << group 1 >>,
\* or << >> when the pattern does not match there
MatchAt(text, pat, i) ==
    LET j == i + Len(pat.keyword)
        p == WsEnd(text, j)
    IN IF ~(StartsWithAt(text, i, pat.keyword) /\ p > j /\ p <= Len(text))
       THEN << >>
       ELSE IF pat.kind = "word"
            THEN << SubSeq(text, p, WordEnd(text, p) - 1) >>
            ELSE IF LazyEnds(text, p) = {} THEN << >>
                 ELSE << SubSeq(text, p, SetMin(LazyEnds(text, p)) - 1) >>

\* re.search(pattern, text): the match at the leftmost index that has one
re_search(pat, text) ==
    LET hits == { i \in 1..Len(text) : MatchAt(text, pat, i) # << >> }
    IN IF hits = {} THEN << >> ELSE MatchAt(text, pat, SetMin(hits))

\* RecipientFrom with the loop left at the first keyword that is present
RECURSIVE RecipientFirstOnly(_, _)
RecipientFirstOnly(text, k) ==
    IF k > Len(patterns) THEN << >>
    ELSE IF Contains(text, patterns[k].keyword)
         THEN (IF re_search(patterns[k], text) # << >>
               THEN re_search(patterns[k], text)[1]
               ELSE << >>)
         ELSE RecipientFirstOnly(text, k + 1)

\* the for loop of extract_recipient from pair k on
RECURSIVE RecipientFrom(_, _)
RecipientFrom(text, k) ==
    IF k > Len(patterns) THEN << >>
    ELSE IF Contains(text, patterns[k].keyword)
              /\ re_search(patterns[k], text) # << >>
         THEN re_search(patterns[k], text)[1]
         ELSE RecipientFrom(text, k + 1)

extract_recipient(text) == RecipientFrom(text, 1)

\* ------------------------------------------------------------------------
\* determine_transaction_type
\* ------------------------------------------------------------------------

\* the first keyword of the list, from k on, that occurs in text (0 if none)
RECURSIVE FirstKeyword(_, _, _)
FirstKeyword(text, keywords, k) ==
    IF k > Len(keywords) THEN 0
    ELSE IF Contains(text, keywords[k]) THEN k
    ELSE FirstKeyword(text, keywords, k + 1)

\* determine_transaction_type with the outbound keywords tested first
determine_type_outbound_first(text) ==
    LET inb == FirstKeyword(text, inbound_keywords, 1)
        outb == FirstKeyword(text, outbound_keywords, 1)
    IN IF outb # 0
       THEN [label |-> outbound_keywords[outb], is_outbound |-> TRUE]
       ELSE IF inb # 0
            THEN [label |-> inbound_keywords[inb], is_outbound |-> FALSE]
            ELSE [label |-> << >>, is_outbound |-> FALSE]

determine_transaction_type(text) ==
    LET inb == FirstKeyword(text, inbound_keywords, 1)
        outb == FirstKeyword(text, outbound_keywords, 1)
    IN IF inb # 0 THEN [label |-> inbound_keywords[inb], is_outbound |-> FALSE]
       ELSE IF outb # 0
            THEN [label |-> outbound_keywords[outb], is_outbound |-> TRUE]
            ELSE [label |-> << >>, is_outbound |-> FALSE]

\* ------------------------------------------------------------------------
\* extract_amount, find_last_two_numbers
\* ------------------------------------------------------------------------

RECURSIVE DigitsEnd(_, _)
DigitsEnd(w, i) == IF i <= Len(w) /\ IsDigit(w[i]) THEN DigitsEnd(w, i + 1) ELSE i

\* the end of (?:,\d{3})* started at i
RECURSIVE GroupsEnd(_, _)
GroupsEnd(w, i) ==
    IF i + 3 <= Len(w) /\ w[i] = "," /\ IsDigit(w[i + 1])
         /\ IsDigit(w[i + 2]) /\ IsDigit(w[i + 3])
    THEN GroupsEnd(w, i + 4)
    ELSE i

\* re.match(r'^\d+(?:,\d{3})*(?:\.\d{2})?$', word)
MoneyMatch(word) ==
    LET a == DigitsEnd(word, 1)
        b == GroupsEnd(word, a)
    IN /\ a > 1
       /\ \/ b = Len(word) + 1
          \/ /\ b + 2 = Len(word)
             /\ word[b] = "."
             /\ IsDigit(word[b + 1])
             /\ IsDigit(word[b + 2])

\* text.replace(',', '')
StripCommas(text) == SelectSeq(text, LAMBDA c : c # ",")

\* the value of a run of digits
RECURSIVE DigitsValue(_)
DigitsValue(ds) ==
    IF Len(ds) = 0 THEN 0
    ELSE 10 * DigitsValue(SubSeq(ds, 1, Len(ds) - 1)) + DigitVal(ds[Len(ds)])

\* float(text.replace(',', '')) in hundredths as << v >>, or << >> for the
\* None of the ValueError branch
extract_amount(text) ==
    LET t == StripCommas(text)
        a == DigitsEnd(t, 1)
    IN IF a > 1 /\ a = Len(t) + 1
       THEN << 100 * DigitsValue(t) >>
       ELSE IF a > 1 /\ a + 2 = Len(t) /\ t[a] = "."
                 /\ IsDigit(t[a + 1]) /\ IsDigit(t[a + 2])
            THEN << 100 * DigitsValue(SubSeq(t, 1, a - 1))
                      + DigitsValue(SubSeq(t, a + 1, a + 2)) >>
            ELSE << >>

\* ScanWords with numbers.append(...) for numbers.insert(0, ...)
RECURSIVE ScanWordsAppend(_, _, _, _)
ScanWordsAppend(words, i, numbers, non_amount_text) ==
    IF i < 1 THEN [numbers |-> numbers, content |-> Join(non_amount_text, SP)]
    ELSE IF Len(numbers) < 2 /\ MoneyMatch(words[i])
         THEN ScanWordsAppend(words, i - 1,
                              numbers \o << extract_amount(words[i]) >>,
                              non_amount_text)
         ELSE ScanWordsAppend(words, i - 1, numbers,
                              << words[i] >> \o non_amount_text)

\* the loop of find_last_two_numbers with word i next, scanning downwards
RECURSIVE ScanWords(_, _, _, _)
ScanWords(words, i, numbers, non_amount_text) ==
    IF i < 1 THEN [numbers |-> numbers, content |-> Join(non_amount_text, SP)]
    ELSE IF Len(numbers) < 2 /\ MoneyMatch(words[i])
         THEN ScanWords(words, i - 1,
                        << extract_amount(words[i]) >> \o numbers,
                        non_amount_text)
         ELSE ScanWords(words, i - 1, numbers,
                        << words[i] >> \o non_amount_text)

\* find_last_two_numbers with the scan run from the first word on
RECURSIVE ScanForward(_, _, _, _)
ScanForward(words, i, numbers, non_amount_text) ==
    IF i > Len(words)
    THEN [numbers |-> numbers, content |-> Join(non_amount_text, SP)]
    ELSE IF Len(numbers) < 2 /\ MoneyMatch(words[i])
         THEN ScanForward(words, i + 1,
                          numbers \o << extract_amount(words[i]) >>,
                          non_amount_text)
         ELSE ScanForward(words, i + 1, numbers,
                          non_amount_text \o << words[i] >>)

find_first_two_numbers(text) == ScanForward(Words(text), 1, << >>, << >>)

find_last_two_numbers(text) ==
    ScanWords(Words(text), Len(Words(text)), << >>, << >>)

\* ------------------------------------------------------------------------
\* parse_transaction_line
\* ------------------------------------------------------------------------

\* the length of the match of re.match(r'^(\d{2}-\d{2}-\d{2}\s+\d{2}:\d{2})', line),
\* 0 when the line does not match
DateMatch(line) ==
    LET n == Len(line)
        D(i) == i <= n /\ IsDigit(line[i])
        C(i, c) == i <= n /\ line[i] = c
        e == WsEnd(line, 9)
    IN IF /\ D(1) /\ D(2) /\ C(3, "-") /\ D(4) /\ D(5) /\ C(6, "-")
          /\ D(7) /\ D(8) /\ e > 9
          /\ D(e) /\ D(e + 1) /\ C(e + 2, ":") /\ D(e + 3) /\ D(e + 4)
       THEN e + 4
       ELSE 0

DaysInMonth(year, month) ==
    IF month = 2 THEN (IF year % 4 = 0 THEN 29 ELSE 28)
    ELSE IF month \in {4, 6, 9, 11} THEN 30
    ELSE 31

\* datetime.strptime(datetime_str, "%d-%m-%y %H:%M") on a string DateMatch
\* accepted: << date >>, or << >> for the ValueError
strptime(datetime_str) ==
    LET n == Len(datetime_str)
        day == DigitsValue(SubSeq(datetime_str, 1, 2))
        month == DigitsValue(SubSeq(datetime_str, 4, 5))
        yy == DigitsValue(SubSeq(datetime_str, 7, 8))
        hour == DigitsValue(SubSeq(datetime_str, n - 4, n - 3))
        minute == DigitsValue(SubSeq(datetime_str, n - 1, n))
        year == IF yy <= 68 THEN 2000 + yy ELSE 1900 + yy
    IN IF /\ month \in 1..12
          /\ day >= 1 /\ day <= DaysInMonth(year, month)
          /\ hour <= 23 /\ minute <= 59
       THEN << [year |-> year, month |-> month, day |-> day,
                hour |-> hour, minute |-> minute] >>
       ELSE << >>

\* the channel clean-up of parse_transaction_line
CleanChannel(channel, details) ==
    IF channel = << "K" >> /\ StartsWith(details, << "P", "L", "U", "S" >>)
    THEN [channel |-> << "K", " ", "P", "L", "U", "S" >>,
          details |-> Strip(Drop(details, 5))]
    ELSE IF channel = << "E", "D", "C", "/", "K" >>
              /\ StartsWith(details, << "S", "H", "O", "P" >>)
    THEN [channel |-> << "E", "D", "C", "/", "K", " ", "S", "H", "O", "P" >>,
          details |-> Strip(Drop(details, 5))]
    ELSE IF channel = << "M", "A", "K", "E" >>
              /\ StartsWith(details, << "b", "y" >>)
    THEN [channel |-> << "M", "A", "K", "E", " ", "b", "y", " ",
                         "K", "B", "a", "n", "k" >>,
          details |-> Strip(Drop(details, 8))]
    ELSE [channel |-> channel, details |-> details]

\* SignedAmount without the sign rule
SignedAmountKept(amount, is_outbound) == amount

\* "amount = -abs(amount)" when outbound
SignedAmount(amount, is_outbound) ==
    IF is_outbound THEN (IF amount < 0 THEN amount ELSE 0 - amount) ELSE amount

\* the None of Python
None == "None"

\* the float of an entry of numbers, None when extract_amount gave None
Unwrap(x) == IF x = << >> THEN None ELSE x[1]

\* the Transaction built from the fields of a line: << transaction >>, or
\* << >> when abs(None) raises the TypeError that the except clause catches
Assemble(line, date, numbers, content) ==
    LET parts == SplitMax1(content)
        cd == CleanChannel(parts[1], IF Len(parts) > 1 THEN parts[2] ELSE << >>)
        ty == determine_transaction_type(cd.details)
        balance == numbers[Len(numbers) - 1]
        amount == numbers[Len(numbers)]
    IN IF ty.is_outbound /\ amount = << >> THEN << >>
       ELSE << [date |-> date,
                channel |-> cd.channel,
                details |-> cd.details,
                transaction_type |-> ty.label,
                recipient |-> extract_recipient(cd.details),
                amount |-> IF amount = << >> THEN None
                           ELSE SignedAmount(amount[1], ty.is_outbound),
                balance |-> Unwrap(balance),
                full_text |-> Strip(line)] >>

\* parse_transaction_line(line): << transaction >>, or << >> for None (no
\* date match, fewer than two numbers, or an exception caught by the except
\* clause: a ValueError of strptime, an IndexError of parts[0])
parse_transaction_line(line) ==
    IF DateMatch(line) = 0 THEN << >>
    ELSE LET datetime_str == SubSeq(line, 1, DateMatch(line))
             fields == find_last_two_numbers(Strip(Drop(line, Len(datetime_str))))
         IN IF strptime(datetime_str) = << >> THEN << >>
            ELSE IF Len(fields.numbers) < 2 THEN << >>
            ELSE IF SplitMax1(fields.content) = << >> THEN << >>
            ELSE Assemble(line, strptime(datetime_str)[1],
                          fields.numbers, fields.content)

\* ------------------------------------------------------------------------
\* clean_text_sections
\* ------------------------------------------------------------------------

\* LineStep with an anchor that does not close the line before it
LineStepNoClose(acc, raw) ==
    LET line == Strip(raw)
    IN IF line = << >> THEN acc
       ELSE IF DateMatch(line) # 0
            THEN [cleaned_lines |-> acc.cleaned_lines, current_line |-> line]
            ELSE [cleaned_lines |-> acc.cleaned_lines,
                  current_line |-> acc.current_line \o SP \o line]

\* one pass of the body of "for line in lines", on the accumulator
\* (cleaned_lines, current_line)
LineStep(acc, raw) ==
    LET line == Strip(raw)
    IN IF line = << >> THEN acc
       ELSE IF DateMatch(line) # 0
            THEN [cleaned_lines |->
                      IF acc.current_line # << >>
                      THEN Append(acc.cleaned_lines, acc.current_line)
                      ELSE acc.cleaned_lines,
                  current_line |-> line]
            ELSE [cleaned_lines |-> acc.cleaned_lines,
                  current_line |-> acc.current_line \o SP \o line]

\* "for line in lines" from line k on
RECURSIVE FoldLines(_, _, _)
FoldLines(lines, k, acc) ==
    IF k > Len(lines) THEN acc
    ELSE FoldLines(lines, k + 1, LineStep(acc, lines[k]))

\* the cleaned_lines of one section that holds the opening-balance marker
CleanedLines(section) ==
    LET acc == FoldLines(Split(section, NL), 1,
                         [cleaned_lines |-> << >>, current_line |-> << >>])
    IN IF acc.current_line # << >>
       THEN Append(acc.cleaned_lines, acc.current_line)
       ELSE acc.cleaned_lines

\* CleanSections without the test for the opening-balance marker
RECURSIVE CleanSectionsAll(_, _)
CleanSectionsAll(sections, k) ==
    IF k > Len(sections) THEN << >>
    ELSE << Join(CleanedLines(sections[k]), NL) >>
            \o CleanSectionsAll(sections, k + 1)

\* "for section in sections" from section k on: the cleaned_sections
RECURSIVE CleanSections(_, _)
CleanSections(sections, k) ==
    IF k > Len(sections) THEN << >>
    ELSE IF ~Contains(sections[k], OpeningMarker)
         THEN CleanSections(sections, k + 1)
         ELSE << Join(CleanedLines(sections[k]), NL) >>
                 \o CleanSections(sections, k + 1)

clean_text_sections(t) == Join(CleanSections(Split(t, FooterMarker), 1), NL)

\* ------------------------------------------------------------------------
\* parse_bank_statement: the loop over the lines of cleaned_text
\* ------------------------------------------------------------------------

\* the transactions the loop appends from line k on
RECURSIVE TransactionsOf(_, _)
TransactionsOf(ls, k) ==
    IF k > Len(ls) THEN << >>
    ELSE IF Strip(ls[k]) = << >> THEN TransactionsOf(ls, k + 1)
    ELSE parse_transaction_line(Strip(ls[k])) \o TransactionsOf(ls, k + 1)

\* ------------------------------------------------------------------------
\* Inputs
\* ------------------------------------------------------------------------

\* the longest text, in physical lines
MaxPieces == 5
\* the longest line after its timestamp, in words
MaxTokens == 4
\* the longest details string, in words
MaxDetailWords == 3

\* '01-06-23 10:15 K PLUS <transfer> <from> <shop>++ 1,000.00 5,000.00'
ExampleLine ==
    << "0", "1", "-", "0", "6", "-", "2", "3", " ", "1", "0", ":", "1", "5",
       " ", "K", " ", "P", "L", "U", "S", " ", "on", "ngoen", " ", "chak",
       " ", "ran", "+", "+", " ", "1", ",", "0", "0", "0", ".", "0", "0",
       " ", "5", ",", "0", "0", "0", ".", "0", "0" >>

\* '02-06-23 09:00 ATM 5.00': an anchor line with one number
OneNumberLine ==
    << "0", "2", "-", "0", "6", "-", "2", "3", " ", "0", "9", ":", "0", "0",
       " ", "A", "T", "M", " ", "5", ".", "0", "0" >>

\* ' <opening balance> 10.00 ': the line of the opening balance, no anchor
OpeningLine == << " ", "yot", " ", "1", "0", ".", "0", "0", " " >>

Pieces == { ExampleLine, OneNumberLine, OpeningLine, FooterMarker }

\* every sequence of at most n elements of S
SeqUpTo(S, n) == UNION { [1..k -> S] : k \in 0..n }

\* the statement texts: physical lines and page footers, one per line
Texts == { Join(ps, NL) : ps \in SeqUpTo(Pieces, MaxPieces) }

\* '01-06-23 10:15'
Stamp ==
    << "0", "1", "-", "0", "6", "-", "2", "3", " ", "1", "0", ":", "1", "5" >>

\* the words of a line: a channel, an outbound and an inbound keyword, a
\* plain word, three monetary numbers and a number with a malformed group
LineWords ==
    { << "K" >>, << "on", "ngoen" >>, << "rab", "on", "ngoen" >>,
      << "A", "B", "C" >>, << "1", "0", ".", "0", "0" >>,
      << "1", ",", "0", "0", "0", ".", "5", "0" >>,
      << "0" >>, << "1", ",", "0", "0" >> }

\* the logical lines: the timestamp and at most MaxTokens words,
\* and the example line
LineInputs ==
    { Stamp \o SP \o Join(ws, SP) : ws \in SeqUpTo(LineWords, MaxTokens) }
        \cup { ExampleLine }

\* the words of a details string: the four recipient keywords, two names
\* (one closed by '++'), and the words of the type keywords
DetailWords ==
    { KwFrom, KwTransferTo, KwReference, KwForPayment,
      << "A" >>, << "B", "+", "+" >>,
      KwTransferIn, KwTransfer, KwPayment, << "rab", "on", "ngoen", "phan" >>,
      << "Q", "R" >> }

DetailInputs == { Join(ws, SP) : ws \in SeqUpTo(DetailWords, MaxDetailWords) }

\* the longest statement page, in transaction lines
MaxBatchLines == 4

\* '31-02-23 10:15 ATM 5.00 6.00': the timestamp matches the pattern and is
\* no calendar date
BadDateLine ==
    << "3", "1", "-", "0", "2", "-", "2", "3", " ", "1", "0", ":", "1", "5",
       " ", "A", "T", "M", " ", "5", ".", "0", "0", " ", "6", ".", "0", "0" >>

\* '03-06-23 10:00 5.00 6.00': nothing is left once the numbers are removed
NoChannelLine ==
    << "0", "3", "-", "0", "6", "-", "2", "3", " ", "1", "0", ":", "0", "0",
       " ", "5", ".", "0", "0", " ", "6", ".", "0", "0" >>

BatchLines == { ExampleLine, BadDateLine, OneNumberLine, NoChannelLine }

\* the statement pages: the line of the opening balance and at most
\* MaxBatchLines anchor lines after it, and the empty text
BatchTexts ==
    { << >> } \cup
    { OpeningLine \o NL \o Join(ps, NL) : ps \in SeqUpTo(BatchLines, MaxBatchLines) }

VARIABLES
    text,          \* the argument of parse_bank_statement
    pc,            \* where the call stands
    cleaned_text,  \* parse_bank_statement: cleaned_text
    lines,         \* parse_bank_statement: cleaned_text.split('\n')
    idx,           \* parse_bank_statement: the line the loop is at
    transactions,  \* parse_bank_statement: transactions
    arg,           \* the argument of a function called on its own
    ret            \* what it returned

vars == << text, pc, cleaned_text, lines, idx, transactions, arg, ret >>

\* ------------------------------------------------------------------------
\* parse_bank_statement
\* ------------------------------------------------------------------------

Init ==
    /\ text \in Texts
    /\ pc = "start"
    /\ cleaned_text = << >>
    /\ lines = << >>
    /\ idx = 0
    /\ transactions = << >>
    /\ arg = << >>
    /\ ret = << >>

\* cleaned_text = clean_text_sections(text); transactions = []
Clean ==
    /\ pc = "start"
    /\ cleaned_text' = clean_text_sections(text)
    /\ lines' = Split(cleaned_text', NL)
    /\ idx' = 1
    /\ pc' = "loop"
    /\ UNCHANGED << text, transactions, arg, ret >>

\* "if not line: continue"
SkipBlankLine ==
    /\ pc = "loop"
    /\ idx <= Len(lines)
    /\ Strip(lines[idx]) = << >>
    /\ idx' = idx + 1
    /\ UNCHANGED << text, pc, cleaned_text, lines, transactions, arg, ret >>

\* RejectLine with the ValueError of strptime left uncaught: the call ends
\* at the line
RejectLineRaises ==
    /\ pc = "loop"
    /\ idx <= Len(lines)
    /\ Strip(lines[idx]) # << >>
    /\ parse_transaction_line(Strip(lines[idx])) = << >>
    /\ LET line == Strip(lines[idx])
       IN IF /\ DateMatch(line) # 0
             /\ strptime(SubSeq(line, 1, DateMatch(line))) = << >>
          THEN pc' = "raised" /\ idx' = idx
          ELSE pc' = pc /\ idx' = idx + 1
    /\ UNCHANGED << text, cleaned_text, lines, transactions, arg, ret >>

\* RejectLine with the loop left at the rejected line
RejectLineAborts ==
    /\ pc = "loop"
    /\ idx <= Len(lines)
    /\ Strip(lines[idx]) # << >>
    /\ parse_transaction_line(Strip(lines[idx])) = << >>
    /\ idx' = Len(lines) + 1
    /\ UNCHANGED << text, pc, cleaned_text, lines, transactions, arg, ret >>

\* parse_transaction_line returned None
RejectLine ==
    /\ pc = "loop"
    /\ idx <= Len(lines)
    /\ Strip(lines[idx]) # << >>
    /\ parse_transaction_line(Strip(lines[idx])) = << >>
    /\ idx' = idx + 1
    /\ UNCHANGED << text, pc, cleaned_text, lines, transactions, arg, ret >>

\* AppendTransaction with transactions.insert(0, transaction)
PrependTransaction ==
    /\ pc = "loop"
    /\ idx <= Len(lines)
    /\ Strip(lines[idx]) # << >>
    /\ parse_transaction_line(Strip(lines[idx])) # << >>
    /\ transactions' =
           << parse_transaction_line(Strip(lines[idx]))[1] >> \o transactions
    /\ idx' = idx + 1
    /\ UNCHANGED << text, pc, cleaned_text, lines, arg, ret >>

\* transactions.append(transaction)
AppendTransaction ==
    /\ pc = "loop"
    /\ idx <= Len(lines)
    /\ Strip(lines[idx]) # << >>
    /\ parse_transaction_line(Strip(lines[idx])) # << >>
    /\ transactions' =
           Append(transactions, parse_transaction_line(Strip(lines[idx]))[1])
    /\ idx' = idx + 1
    /\ UNCHANGED << text, pc, cleaned_text, lines, arg, ret >>

\* return transactions
Return ==
    /\ pc = "loop"
    /\ idx > Len(lines)
    /\ pc' = "done"
    /\ UNCHANGED << text, cleaned_text, lines, idx, transactions, arg, ret >>

Next == Clean \/ SkipBlankLine \/ RejectLine \/ AppendTransaction \/ Return

Spec == Init /\ [][Next]_vars

\* ------------------------------------------------------------------------
\* parse_transaction_line called on one logical line
\* ------------------------------------------------------------------------

InitLine ==
    /\ arg \in LineInputs
    /\ pc = "call"
    /\ ret = << >>
    /\ text = << >>
    /\ cleaned_text = << >>
    /\ lines = << >>
    /\ idx = 0
    /\ transactions = << >>

CallParseLine ==
    /\ pc = "call"
    /\ ret' = parse_transaction_line(arg)
    /\ pc' = "parsed"
    /\ UNCHANGED << text, cleaned_text, lines, idx, transactions, arg >>

\* find_last_two_numbers on what follows the timestamp
CallFindNumbers ==
    /\ pc = "call"
    /\ ret' = find_last_two_numbers(Strip(Drop(arg, DateMatch(arg))))
    /\ pc' = "numbers"
    /\ UNCHANGED << text, cleaned_text, lines, idx, transactions, arg >>

NextLine == CallParseLine \/ CallFindNumbers

SpecLine == InitLine /\ [][NextLine]_vars

\* ------------------------------------------------------------------------
\* determine_transaction_type and extract_recipient called on one details
\* string
\* ------------------------------------------------------------------------

InitDetails ==
    /\ arg \in DetailInputs
    /\ pc = "call"
    /\ ret = << >>
    /\ text = << >>
    /\ cleaned_text = << >>
    /\ lines = << >>
    /\ idx = 0
    /\ transactions = << >>

CallType ==
    /\ pc = "call"
    /\ ret' = determine_transaction_type(arg)
    /\ pc' = "typed"
    /\ UNCHANGED << text, cleaned_text, lines, idx, transactions, arg >>

CallRecipient ==
    /\ pc = "call"
    /\ ret' = extract_recipient(arg)
    /\ pc' = "recipient"
    /\ UNCHANGED << text, cleaned_text, lines, idx, transactions, arg >>

NextDetails == CallType \/ CallRecipient

SpecDetails == InitDetails /\ [][NextDetails]_vars

\* ------------------------------------------------------------------------
\* parse_bank_statement called on one statement page
\* ------------------------------------------------------------------------

InitBatch ==
    /\ text \in BatchTexts
    /\ pc = "start"
    /\ cleaned_text = << >>
    /\ lines = << >>
    /\ idx = 0
    /\ transactions = << >>
    /\ arg = << >>
    /\ ret = << >>

SpecBatch == InitBatch /\ [][Next]_vars

\* ------------------------------------------------------------------------
\* Properties
\* ------------------------------------------------------------------------

\* the words of a logical line after its timestamp
WordsAfterStamp(line) == Words(Drop(line, DateMatch(line)))

\* the indices of the words of ws that are monetary numbers
MoneyIdx(ws) == { k \in 1..Len(ws) : MoneyMatch(ws[k]) }

\* the last word is a monetary number and the word before it is not
OneTrailingNumber(line) ==
    LET ws == WordsAfterStamp(line)
    IN /\ Len(ws) >= 1
       /\ MoneyMatch(ws[Len(ws)])
       /\ Len(ws) >= 2 => ~MoneyMatch(ws[Len(ws) - 1])

\* the Transactions a call has returned so far
Returned ==
    { transactions[k] : k \in 1..Len(transactions) }
        \cup (IF pc = "parsed" /\ ret # << >> THEN { ret[1] } ELSE {})

\* C1: every Transaction has amount <= 0 when determine_transaction_type
\* classifies its details as outbound, amount >= 0 when it does not, and
\* balance >= 0
SignInvariant ==
    \A t \in Returned :
        /\ determine_transaction_type(t.details).is_outbound => t.amount <= 0
        /\ ~determine_transaction_type(t.details).is_outbound => t.amount >= 0
        /\ t.balance >= 0

\* an outbound Transaction with a negative amount has been returned
SignWitness ==
    /\ pc = "parsed"
    /\ ret # << >>
    /\ determine_transaction_type(ret[1].details).is_outbound
    /\ ret[1].amount < 0
    /\ ret[1].balance > 0

\* C2 as stated: no line whose last word is numeric and whose word before
\* it is not appears in the output
OneTrailingNumberRejected ==
    \A k \in 1..Len(transactions) :
        ~OneTrailingNumber(transactions[k].full_text)

\* C2, amended: no line with fewer than two monetary words appears in the
\* output, the output holds the Transaction of every accepted line met so
\* far, and the loop ends past the last line (no line ends the batch)
RejectionSafety ==
    /\ \A k \in 1..Len(transactions) :
           Cardinality(MoneyIdx(WordsAfterStamp(transactions[k].full_text))) >= 2
    /\ pc \in {"loop", "done"} =>
           transactions = TransactionsOf(SubSeq(lines, 1, idx - 1), 1)
    /\ pc = "done" => idx = Len(lines) + 1

\* a line with one number was rejected and the valid line after it is in
\* the output
RejectionWitness ==
    /\ pc = "done"
    /\ \E k \in 1..(Len(lines) - 1) :
           /\ DateMatch(lines[k]) # 0
           /\ OneTrailingNumber(lines[k])
           /\ Cardinality(MoneyIdx(WordsAfterStamp(lines[k]))) = 1
           /\ parse_transaction_line(lines[k + 1]) # << >>
           /\ \E m \in 1..Len(transactions) :
                  transactions[m] = parse_transaction_line(lines[k + 1])[1]

\* the trimmed anchor lines of a section, in order
AnchorsOf(section) ==
    LET ls == Split(section, NL)
        trimmed == [k \in 1..Len(ls) |-> Strip(ls[k])]
    IN SelectSeq(trimmed, LAMBDA l : DateMatch(l) # 0)

\* the trimmed anchor lines of the sections from section k on, in order
RECURSIVE AnchorsFrom(_, _)
AnchorsFrom(sections, k) ==
    IF k > Len(sections) THEN << >>
    ELSE AnchorsOf(sections[k]) \o AnchorsFrom(sections, k + 1)

SourceAnchors(t) == AnchorsFrom(Split(t, FooterMarker), 1)

\* the transactions from k on come, in order, from anchors from j on
RECURSIVE Embeds(_, _, _, _)
Embeds(ts, k, anchors, j) ==
    IF k > Len(ts) THEN TRUE
    ELSE IF j > Len(anchors) THEN FALSE
    ELSE IF StartsWith(ts[k].full_text, anchors[j])
         THEN Embeds(ts, k + 1, anchors, j + 1)
         ELSE Embeds(ts, k, anchors, j + 1)

\* C3: the Transactions of the output stand in the order of the anchor
\* lines of the input they begin with
OrderPreservation == Embeds(transactions, 1, SourceAnchors(text), 1)

\* two sections have each given one Transaction, of different anchors
OrderWitness ==
    /\ pc = "done"
    /\ Len(transactions) = 2
    /\ transactions[1].date # transactions[2].date
    /\ Len(Split(text, FooterMarker)) = 2
    /\ \A k \in 1..2 :
           /\ Contains(Split(text, FooterMarker)[k], OpeningMarker)
           /\ Len(AnchorsOf(Split(text, FooterMarker)[k])) = 1

\* C4 as stated: the example line gives amount -1000.00 and balance 5000.00
ExampleAsStated ==
    pc = "parsed" /\ arg = ExampleLine =>
        /\ ret # << >>
        /\ ret[1].channel = << "K", " ", "P", "L", "U", "S" >>
        /\ ret[1].transaction_type = KwTransfer
        /\ determine_transaction_type(ret[1].details).is_outbound
        /\ ret[1].recipient = << "ran" >>
        /\ ret[1].amount = 0 - 100000
        /\ ret[1].balance = 500000

\* C4, amended: the example line gives channel 'K PLUS', the transfer type,
\* direction outbound, the shop as recipient, amount -5000.00 and balance
\* 1000.00; an outbound line that ends in the monetary words a b gives
\* amount -b and balance a
ExampleOne ==
    /\ pc = "parsed" /\ arg = ExampleLine =>
           /\ ret # << >>
           /\ ret[1].channel = << "K", " ", "P", "L", "U", "S" >>
           /\ ret[1].transaction_type = KwTransfer
           /\ determine_transaction_type(ret[1].details).is_outbound
           /\ ret[1].recipient = << "ran" >>
           /\ ret[1].amount = 0 - 500000
           /\ ret[1].balance = 100000
    /\ pc = "parsed" /\ ret # << >> =>
           LET ws == WordsAfterStamp(arg)
               n == Len(ws)
           IN /\ n >= 2
              /\ MoneyMatch(ws[n]) /\ MoneyMatch(ws[n - 1])
              /\ determine_transaction_type(ret[1].details).is_outbound
              => /\ ret[1].amount = 0 - extract_amount(ws[n])[1]
                 /\ ret[1].balance = extract_amount(ws[n - 1])[1]

\* the example line has been parsed
ExampleWitness == pc = "parsed" /\ arg = ExampleLine /\ ret # << >>

\* the sections of t that hold the opening-balance marker, as a text
MarkedOnly(t) ==
    Join(SelectSeq(Split(t, FooterMarker),
                   LAMBDA sec : Contains(sec, OpeningMarker)),
         FooterMarker)

\* C5: the output is the output of the sections that hold the
\* opening-balance marker alone; it is empty when no section holds it
SectionFilter ==
    pc = "done" =>
        /\ transactions =
               TransactionsOf(Split(clean_text_sections(MarkedOnly(text)), NL), 1)
        /\ Len(transactions) <= Len(SourceAnchors(MarkedOnly(text)))
        /\ MarkedOnly(text) = << >> => transactions = << >>

\* a section without the marker holds a line that parses, and another
\* section has given a Transaction
SectionFilterWitness ==
    /\ pc = "done"
    /\ Len(transactions) >= 1
    /\ \E k \in 1..Len(Split(text, FooterMarker)) :
           /\ ~Contains(Split(text, FooterMarker)[k], OpeningMarker)
           /\ TransactionsOf(Split(Split(text, FooterMarker)[k], NL), 1) # << >>

\* the trimmed non-blank lines of a section
TrimmedLines(section) ==
    LET ls == Split(section, NL)
    IN SelectSeq([k \in 1..Len(ls) |-> Strip(ls[k])], LAMBDA l : l # << >>)

\* the anchor at index a of ls and the lines after it up to the next anchor
\* or the end, space-joined
Group(ls, a) ==
    LET later == { b \in (a + 1)..Len(ls) : DateMatch(ls[b]) # 0 }
        stop == IF later = {} THEN Len(ls) + 1 ELSE SetMin(later)
    IN Join(SubSeq(ls, a, stop - 1), SP)

\* one Group for each anchor of ls from index a on
RECURSIVE GroupsFrom(_, _)
GroupsFrom(ls, a) ==
    IF a > Len(ls) THEN << >>
    ELSE IF DateMatch(ls[a]) # 0 THEN << Group(ls, a) >> \o GroupsFrom(ls, a + 1)
    ELSE GroupsFrom(ls, a + 1)

\* the Groups of the sections from k on that hold the opening-balance marker
RECURSIVE GroupsOfSections(_, _)
GroupsOfSections(sections, k) ==
    IF k > Len(sections) THEN << >>
    ELSE IF Contains(sections[k], OpeningMarker)
         THEN GroupsFrom(TrimmedLines(sections[k]), 1)
                  \o GroupsOfSections(sections, k + 1)
         ELSE GroupsOfSections(sections, k + 1)

\* C6: the lines of cleaned_text that begin with a timestamp are, in order,
\* one for each anchor of each surviving section: the trimmed anchor and the
\* trimmed lines that follow it in its section up to the next anchor,
\* space-joined
ContinuationJoining ==
    pc # "start" =>
        SelectSeq(Split(cleaned_text, NL), LAMBDA l : DateMatch(l) # 0)
            = GroupsOfSections(Split(text, FooterMarker), 1)

\* an anchor and two fragments have become one logical line, closed by the
\* next anchor
ContinuationWitness ==
    /\ pc # "start"
    /\ \E k \in 1..(Len(lines) - 1) :
           /\ lines[k] = OneNumberLine \o SP \o Strip(OpeningLine)
                             \o SP \o Strip(OpeningLine)
           /\ DateMatch(lines[k + 1]) # 0

\* C7 as stated: every logical line of cleaned_text begins with a timestamp
LogicalLinesAnchored ==
    pc # "start" =>
        \A k \in 1..Len(lines) : lines[k] # << >> => DateMatch(lines[k]) # 0

\* the pairs whose keyword occurs in details
PresentPairs(details) ==
    { k \in 1..Len(patterns) : Contains(details, patterns[k].keyword) }

\* the pairs whose keyword occurs in details and whose pattern matches
MatchingPairs(details) ==
    { k \in PresentPairs(details) : re_search(patterns[k], details) # << >> }

PresentKeywords(details, keywords) ==
    { k \in 1..Len(keywords) : Contains(details, keywords[k]) }

\* C9: with an inbound keyword present the result is the first inbound
\* keyword present and not outbound, whatever outbound keywords are present;
\* else the first outbound keyword present and outbound; else the empty
\* label and not outbound
InboundPrecedence ==
    pc = "typed" =>
        LET inb == PresentKeywords(arg, inbound_keywords)
            outb == PresentKeywords(arg, outbound_keywords)
        IN IF inb # {}
           THEN ret = [label |-> inbound_keywords[SetMin(inb)],
                       is_outbound |-> FALSE]
           ELSE IF outb # {}
                THEN ret = [label |-> outbound_keywords[SetMin(outb)],
                            is_outbound |-> TRUE]
                ELSE ret = [label |-> << >>, is_outbound |-> FALSE]

\* a details string with an inbound keyword and the payment keyword was
\* classified inbound
InboundWitness ==
    /\ pc = "typed"
    /\ Contains(arg, KwTransferIn)
    /\ Contains(arg, KwPayment)
    /\ ret = [label |-> KwTransferIn, is_outbound |-> FALSE]

\* C10 as stated: the two numbers of a Transaction are the last two words
\* of its line
NumbersAreTrailing ==
    pc = "parsed" /\ ret # << >> =>
        LET ws == WordsAfterStamp(arg)
        IN /\ Len(ws) >= 2
           /\ MoneyMatch(ws[Len(ws)])
           /\ MoneyMatch(ws[Len(ws) - 1])

\* the indices of the last two monetary words of ws (fewer when ws has
\* fewer)
Picked(ws) ==
    { k \in MoneyIdx(ws) : Cardinality({ m \in MoneyIdx(ws) : m > k }) < 2 }

\* the words of ws from index k on whose index is in S, in order
RECURSIVE WordsAt(_, _, _)
WordsAt(ws, S, k) ==
    IF k > Len(ws) THEN << >>
    ELSE IF k \in S THEN << ws[k] >> \o WordsAt(ws, S, k + 1)
    ELSE WordsAt(ws, S, k + 1)

\* the absolute value
Abs(x) == IF x < 0 THEN 0 - x ELSE x

\* C10, amended: the numbers captured are the last two words of the line
\* that match the monetary pattern, wherever they stand, in original order;
\* the earlier is the balance and the later the unsigned amount; the content
\* is every other word, space-joined in original order; a line with fewer
\* than two monetary words is rejected
LastTwoNumbers ==
    LET ws == WordsAfterStamp(arg)
        picked == WordsAt(ws, Picked(ws), 1)
    IN /\ pc = "numbers" =>
              /\ ret.numbers = [k \in 1..Len(picked) |-> extract_amount(picked[k])]
              /\ ret.content = Join(WordsAt(ws, (1..Len(ws)) \ Picked(ws), 1), SP)
       /\ pc = "parsed" /\ Len(picked) < 2 => ret = << >>
       /\ pc = "parsed" /\ ret # << >> =>
              /\ ret[1].balance = extract_amount(picked[1])[1]
              /\ Abs(ret[1].amount) = extract_amount(picked[2])[1]

\* a Transaction has come from a line whose last word is no number
NumbersWitness ==
    /\ pc = "parsed"
    /\ ret # << >>
    /\ ~MoneyMatch(WordsAfterStamp(arg)[Len(WordsAfterStamp(arg))])
    /\ ret[1].balance # Abs(ret[1].amount)

\* the last stage a logical line reaches
Stage(line) ==
    LET ws == WordsAfterStamp(line)
    IN IF DateMatch(line) = 0 THEN "Unparsed"
       ELSE IF strptime(SubSeq(line, 1, DateMatch(line))) = << >>
       THEN "Unparsed"
       ELSE IF Cardinality(MoneyIdx(ws)) < 2 THEN "TimestampOK"
       ELSE IF Len(ws) = 2 THEN "FieldsOK"
       ELSE "Assembled"

\* the trimmed lines of ls from index k on that reach Assembled, in order
RECURSIVE AssembledLines(_, _)
AssembledLines(ls, k) ==
    IF k > Len(ls) THEN << >>
    ELSE IF Stage(Strip(ls[k])) = "Assembled"
    THEN << Strip(ls[k]) >> \o AssembledLines(ls, k + 1)
    ELSE AssembledLines(ls, k + 1)

\* C11: a line that fails a stage (no timestamp, a timestamp that is no
\* calendar date, fewer than two numbers, no channel left) gives no
\* Transaction and ends nothing: the call is always running or returned,
\* the output is the Transactions of exactly the lines met so far that
\* reach Assembled, in order, and the call returns past the last line
BatchNeverAborts ==
    /\ pc \in {"start", "loop", "done"}
    /\ pc \in {"loop", "done"} =>
           LET met == AssembledLines(SubSeq(lines, 1, idx - 1), 1)
           IN /\ \A k \in 1..(idx - 1) :
                     Stage(Strip(lines[k])) # "Assembled" =>
                         parse_transaction_line(Strip(lines[k])) = << >>
              /\ Len(transactions) = Len(met)
              /\ \A k \in 1..Len(met) :
                     /\ parse_transaction_line(met[k]) # << >>
                     /\ transactions[k] = parse_transaction_line(met[k])[1]
    /\ pc = "done" => idx = Len(lines) + 1

\* a page whose lines failed at every stage (the opening line without a
\* timestamp, a date that is none, one number, no channel) has returned
\* the Transaction of the valid line after them
BatchWitness ==
    /\ pc = "done"
    /\ Len(lines) = 5
    /\ DateMatch(Strip(lines[1])) = 0
    /\ \E k \in 2..4 :
           /\ DateMatch(lines[k]) # 0
           /\ strptime(SubSeq(lines[k], 1, DateMatch(lines[k]))) = << >>
    /\ \E k \in 2..4 : Stage(lines[k]) = "TimestampOK"
    /\ \E k \in 2..4 : Stage(lines[k]) = "FieldsOK"
    /\ Stage(lines[5]) = "Assembled"
    /\ Len(transactions) = 1
    /\ transactions[1].full_text = lines[5]

=============================================================================
